---- MODULE Spec2Model ----
(***************************************************************************)
(* A model of the llmrouter REST inference client:                         *)
(*   - AsyncDataWriter            (src/lib/file/data_handler.py:22-146)     *)
(*   - DataHandler's streaming producer/consumer executor                   *)
(*                                (src/lib/file/data_handler.py:234-365)    *)
(*   - RESTInferenceClient        (src/client/rest/rest_inference_client.py)*)
(*                                                                          *)
(* All tasks run on one asyncio event loop, so a task is interrupted only   *)
(* at an await that really suspends: a network call, an aiofiles call, a    *)
(* sleep, a get on an empty queue, a put on a full queue, the await of a    *)
(* task. Each action below is the code between two such points.            *)
(***************************************************************************)
EXTENDS Integers, Sequences, FiniteSets, TLC

\* ------------------------------------------------------------------ bounds
MaxLines == 2        \* physical lines of the streamed source file
MaxWorkers == 2      \* max_workers handed to producer_consumer_executor
MaxBuf == 1          \* buffer_size of the pipeline queue
MaxWBuf == 2         \* buffer_size of the writer's queue
MaxFlushCount == 2   \* flush_count of the writer
MaxItems == 3        \* write_data calls of the writer harness
MaxCallers == 2      \* concurrent callers of write_data in the writer harness
MaxDispatch == 2     \* calls of http_inference_consumer
MaxClock == 2        \* clock ticks
MaxRate == 1         \* rate_limit
MaxRequests == 4     \* add_request calls before the report
MaxData == 4         \* length of the list handed to _percentile
MaxFile == 3         \* physical lines of the file handed to load_data
MaxCount == 4        \* largest count handed to load_data
MaxConfigs == 3      \* entries of the config file
MaxCycles == 2       \* start/stop cycles of one writer

\* --------------------------------------------------------------- constants
None == 0            \* the end-of-stream marker of data_queue
FailureStatus == 500 \* status of a locally built error response
OkStatus == 200      \* a status a server answers with
Unknown == 0         \* the request_id 'unknown' of a locally built error response

VARIABLES
    \* AsyncDataWriter
    wbuf,            \* self.buffer_size (maxsize of write_queue)
    flush_count,     \* self.flush_count
    flush_interval,  \* self.flush_interval, in clock ticks
    is_running,      \* self.is_running
    write_queue,     \* self.write_queue
    total_written,   \* self.total_written
    elapsed,         \* time.time() - self.last_flush_time, saturating at flush_interval
    wpc,             \* position of the writer task (_writer_loop)
    wdata,           \* _writer_loop's local `data`
    file,            \* lines the writer task wrote to file_path, in order
    flushed,         \* how many of them a flush has covered
    \* callers of the writer
    handed,          \* items whose write_data call returned, in order
    stop_pc,         \* position of the running stop() call
    stopCalls,       \* how often stop() was invoked
    handedAtStop,    \* `handed` when stop() was last invoked
    \* writer harness: a main task and concurrent callers of write_data
    mpc,             \* position of the harness's main task
    apc,             \* per caller: "idle" or "blocked" (in the while-full loop)
    adata,           \* per caller: the item of the blocked write_data call
    issued,          \* write_data calls made so far
    \* the streamed source file and the producer task
    src,             \* the lines read so far (kinds), in file order
    ppc,             \* position of the producer task
    pdata,           \* the record the producer holds while the queue is full
    line_num,        \* _load_jsonl_async's line_num: records yielded so far
    readFailed,      \* the reader raised (file missing or read error)
    \* the pipeline
    max_workers,
    buffer_size,
    data_queue,
    cpc,             \* per consumer: position
    cdata,           \* per consumer: the record being processed
    cout,            \* per consumer: the item of its pending write_data call
    processed_count, \* per consumer: _consumer's processed_count
    results,         \* producer_consumer_executor's results list
    epc,             \* position of producer_consumer_executor
    \* RESTInferenceClient
    requests,        \* report_generator.requests
    response_writer, \* self.response_writer is set
    request_body_path,      \* "none", or the state of the file: "missing", "empty", "ok"
    concurrent_bodies_path, \* "none" or "file"
    read_mode,       \* "stream": full_load without a line range; "list": any other
    request_bodies,  \* how many records load_data returned to the "list" branch
    rpc,             \* position of run_all_inference
    \* a caller of http_inference_consumer and the AsyncHttpClient of each call
    now,             \* time.time(), in clock ticks
    rate_limit,      \* the rate_limit every AsyncHttpClient is created with
    dpc,             \* position of the http_inference_consumer call
    dispatched,      \* calls made so far: the request_num of the last one
    minted,          \* request ids _generate_request_id has returned so far
    request_id,      \* post's local request_id
    start_time,      \* post's local start_time
    steps,           \* what the last post did, in order
    starts,          \* when each post sent its request, in call order
    answers,         \* what the remote side did with each request, in call order
    dout,            \* the item of the pending write_data call
    \* RequestReportGenerator
    report,          \* what generate_report last returned
    \* a caller of _percentile
    data,            \* the argument `data`
    percentile,      \* the argument `percentile`
    presult,         \* what _percentile returned
    rpm,             \* print_report's local rpm
    \* a caller of DataHandler.load_data
    lines,           \* the physical lines of the file at file_path
    mode,            \* the argument `mode`
    count,           \* the argument `count` (0: None)
    fill_with_first, \* the argument `fill_with_first`
    start_line,      \* the argument `start_line` (NoLine: None)
    end_line,        \* the argument `end_line` (NoLine: None)
    raw_data,        \* what _load_jsonl returned
    result,          \* what load_data returned, or that it raised
    \* a caller of _load_env_config
    configs,         \* the entries of the file at config_path
    env_name,        \* the argument `env_name`
    target_config    \* what _load_env_config returned, or that it raised

writerVars == <<wbuf, flush_count, flush_interval, is_running, write_queue,
                total_written, elapsed, wpc, wdata, file, flushed>>
callVars == <<handed, stop_pc, stopCalls, handedAtStop>>
harnessVars == <<mpc, apc, adata, issued>>
sourceVars == <<src, ppc, pdata, line_num, readFailed>>
pipeVars == <<max_workers, buffer_size, data_queue, cpc, cdata, cout,
              processed_count, results, epc>>
clientVars == <<requests, response_writer, request_body_path,
                concurrent_bodies_path, read_mode, request_bodies, rpc>>
dispatchVars == <<now, rate_limit, dpc, dispatched, minted, request_id,
                  start_time, steps, starts, answers, dout>>
reportVars == <<report, data, percentile, presult, rpm>>
loadVars == <<lines, mode, count, fill_with_first, start_line, end_line,
              raw_data, result>>
configVars == <<configs, env_name, target_config>>
vars == <<writerVars, callVars, harnessVars, sourceVars, pipeVars, clientVars,
          dispatchVars, reportVars, loadVars, configVars>>

Workers == 0 .. (MaxWorkers - 1)
Callers == 1 .. MaxCallers

\* The stop marker stop() puts into write_queue (Python's None).
StopMarker == [request_num |-> 0, rec |-> 0, worker_id |-> 0 - 1, err |-> FALSE]
\* The JSON line written for an outcome: response_data / error_data.
Line(worker, num, rec, err) ==
    [request_num |-> num, rec |-> rec, worker_id |-> worker, err |-> err]

\* ------------------------------------------------------- AsyncDataWriter
\* asyncio.Queue.full() of write_queue.
WriteQueueFull == Len(write_queue) >= wbuf

\* The count condition of the flush decision.
CountFlushDue == flush_count > 0 /\ Len(write_queue) >= flush_count

\* The time condition of the flush decision.
TimeFlushDue == flush_interval > 0 /\ elapsed >= flush_interval

\* The writer task is created by start() and ends by return or exception.
WriterTaskOver == wpc \in {"done", "failed"}

\* AsyncDataWriter.start()
WriterStarted ==
    /\ is_running' = TRUE
    /\ wpc' = "open"

\* The content of a file opened with mode 'a': what it held.
OpenedFile_Truncated == <<>>
OpenedFile == file

\* aiofiles.open(file_path, 'a') returns.
WriterOpen ==
    /\ wpc = "open"
    /\ wpc' = "get"
    /\ file' = OpenedFile
    /\ UNCHANGED <<wbuf, flush_count, flush_interval, is_running, write_queue,
                   total_written, elapsed, wdata, flushed>>
    /\ UNCHANGED <<callVars, harnessVars, sourceVars, pipeVars, clientVars>>
    /\ UNCHANGED <<dispatchVars, reportVars, loadVars, configVars>>

\* wait_for(write_queue.get()) returns an item; the stop marker ends the loop.
WriterGet ==
    /\ wpc = "get"
    /\ write_queue # <<>>
    /\ write_queue' = Tail(write_queue)
    /\ IF Head(write_queue) = StopMarker
         THEN wpc' = "final" /\ UNCHANGED wdata
         ELSE wpc' = "write" /\ wdata' = Head(write_queue)
    /\ UNCHANGED <<wbuf, flush_count, flush_interval, is_running,
                   total_written, elapsed, file, flushed>>
    /\ UNCHANGED <<callVars, harnessVars, sourceVars, pipeVars, clientVars>>
    /\ UNCHANGED <<dispatchVars, reportVars, loadVars, configVars>>

\* wait_for times out on the empty queue: `continue`.
WriterTimeout ==
    /\ wpc = "get"
    /\ write_queue = <<>>
    /\ UNCHANGED vars

\* f.write returns; the counters and the flush decision follow without an await.
WriterWrite ==
    /\ wpc = "write"
    /\ file' = Append(file, wdata)
    /\ total_written' = total_written + 1
    /\ elapsed' = IF TimeFlushDue THEN 0 ELSE elapsed
    /\ wpc' = IF CountFlushDue \/ TimeFlushDue THEN "flush" ELSE "get"
    /\ UNCHANGED <<wbuf, flush_count, flush_interval, is_running, write_queue,
                   wdata, flushed>>
    /\ UNCHANGED <<callVars, harnessVars, sourceVars, pipeVars, clientVars>>
    /\ UNCHANGED <<dispatchVars, reportVars, loadVars, configVars>>

\* f.flush() inside the loop returns.
WriterFlush ==
    /\ wpc = "flush"
    /\ flushed' = Len(file)
    /\ wpc' = "get"
    /\ UNCHANGED <<wbuf, flush_count, flush_interval, is_running, write_queue,
                   total_written, elapsed, wdata, file>>
    /\ UNCHANGED <<callVars, harnessVars, sourceVars, pipeVars, clientVars>>
    /\ UNCHANGED <<dispatchVars, reportVars, loadVars, configVars>>

\* The final f.flush() after the loop, and the file is closed.
FinalFlush_Skipped == flushed
FinalFlush == Len(file)

WriterFinal ==
    /\ wpc = "final"
    /\ flushed' = FinalFlush
    /\ wpc' = "done"
    /\ UNCHANGED <<wbuf, flush_count, flush_interval, is_running, write_queue,
                   total_written, elapsed, wdata, file>>
    /\ UNCHANGED <<callVars, harnessVars, sourceVars, pipeVars, clientVars>>
    /\ UNCHANGED <<dispatchVars, reportVars, loadVars, configVars>>

\* aiofiles.open, f.write or f.flush raises: the loop's handler prints and
\* re-raises, the task ends with the exception.
WriterFail ==
    /\ wpc \in {"open", "write", "flush", "final"}
    /\ wpc' = "failed"
    /\ UNCHANGED <<wbuf, flush_count, flush_interval, is_running, write_queue,
                   total_written, elapsed, wdata, file, flushed>>
    /\ UNCHANGED <<callVars, harnessVars, sourceVars, pipeVars, clientVars>>
    /\ UNCHANGED <<dispatchVars, reportVars, loadVars, configVars>>

\* One clock tick passes while the writer task runs.
Tick ==
    /\ wpc \in {"get", "write", "flush"}
    /\ elapsed < flush_interval
    /\ elapsed' = elapsed + 1
    /\ UNCHANGED <<wbuf, flush_count, flush_interval, is_running, write_queue,
                   total_written, wpc, wdata, file, flushed>>
    /\ UNCHANGED <<callVars, harnessVars, sourceVars, pipeVars, clientVars>>
    /\ UNCHANGED <<dispatchVars, reportVars, loadVars, configVars>>

\* stop() is invoked: it returns at once when the writer is not running.
StopInvoked ==
    /\ stopCalls' = stopCalls + 1
    /\ handedAtStop' = handed
    /\ stop_pc' = IF is_running THEN "put" ELSE "returned"

\* stop(): `await self.write_queue.put(None)` gets a free slot.
StopPut ==
    /\ stop_pc = "put"
    /\ ~WriteQueueFull
    /\ write_queue' = Append(write_queue, StopMarker)
    /\ stop_pc' = "join"
    /\ UNCHANGED <<wbuf, flush_count, flush_interval, is_running,
                   total_written, elapsed, wpc, wdata, file, flushed>>
    /\ UNCHANGED <<handed, stopCalls, handedAtStop>>
    /\ UNCHANGED <<harnessVars, sourceVars, pipeVars, clientVars>>
    /\ UNCHANGED <<dispatchVars, reportVars, loadVars, configVars>>

\* stop(): `await self.writer_task` ends, with the task's exception if it has one.
StopJoinReady_NoWait == TRUE
StopJoinReady == WriterTaskOver

StopJoin ==
    /\ stop_pc = "join"
    /\ StopJoinReady
    /\ IF wpc = "failed"
         THEN stop_pc' = "raised" /\ UNCHANGED is_running
         ELSE stop_pc' = "returned" /\ is_running' = FALSE
    /\ UNCHANGED <<wbuf, flush_count, flush_interval, write_queue,
                   total_written, elapsed, wpc, wdata, file, flushed>>
    /\ UNCHANGED <<handed, stopCalls, handedAtStop>>
    /\ UNCHANGED <<harnessVars, sourceVars, pipeVars, clientVars>>
    /\ UNCHANGED <<dispatchVars, reportVars, loadVars, configVars>>

\* ----------------------------------------------------- initial values
\* The state after AsyncDataWriter.__init__.
WriterNew ==
    /\ is_running = FALSE
    /\ write_queue = <<>>
    /\ total_written = 0
    /\ elapsed = flush_interval
    /\ wpc = "none"
    /\ wdata = StopMarker
    /\ file = <<>>
    /\ flushed = 0
    /\ handed = <<>>
    /\ stop_pc = "idle"
    /\ stopCalls = 0
    /\ handedAtStop = <<>>

\* A writer with any parameters within the bounds.
InitWriter ==
    /\ wbuf \in 1 .. MaxWBuf
    /\ flush_count \in 0 .. MaxFlushCount
    /\ flush_interval \in 0 .. 1
    /\ WriterNew

\* No writer is created: response_writer stays None.
NoWriter ==
    /\ wbuf = 1
    /\ flush_count = 0
    /\ flush_interval = 0
    /\ WriterNew

IdleHarness ==
    /\ mpc = "none"
    /\ apc = [c \in Callers |-> "idle"]
    /\ adata = [c \in Callers |-> StopMarker]
    /\ issued = 0

IdlePipeline ==
    /\ src = <<>>
    /\ ppc = "none"
    /\ pdata = None
    /\ line_num = 0
    /\ readFailed = FALSE
    /\ max_workers = 1
    /\ buffer_size = 1
    /\ data_queue = <<>>
    /\ cpc = [w \in Workers |-> "none"]
    /\ cdata = [w \in Workers |-> None]
    /\ cout = [w \in Workers |-> StopMarker]
    /\ processed_count = [w \in Workers |-> 0]
    /\ results = <<>>
    /\ epc = "none"

IdleClient ==
    /\ requests = <<>>
    /\ response_writer = FALSE
    /\ request_body_path = "none"
    /\ concurrent_bodies_path = "none"
    /\ read_mode = "stream"
    /\ request_bodies = 0
    /\ rpc = "none"

IdleDispatch ==
    /\ now = 0
    /\ rate_limit = 1
    /\ dpc = "none"
    /\ dispatched = 0
    /\ minted = 0
    /\ request_id = Unknown
    /\ start_time = 0
    /\ steps = <<>>
    /\ starts = <<>>
    /\ answers = <<>>
    /\ dout = StopMarker

\* No report has been generated, _percentile has not been called.
NoReport ==
    [total_requests |-> 0 - 1, status_code_counts |-> <<>>,
     duration_stats |-> <<>>, summary |-> <<>>]

\* print_report has not computed rpm.
NoRpm == [num |-> 0 - 1, den |-> 1]

IdleReport ==
    /\ report = NoReport
    /\ data = <<>>
    /\ percentile = 50
    /\ presult = 0
    /\ rpm = NoRpm

\* load_data and _load_env_config are not called.
NoLine == 0 - 1
NotLoaded == [raised |-> FALSE, read |-> FALSE, data |-> <<>>]
NoConfig == [raised |-> FALSE, entry |-> 0]

IdleLoad ==
    /\ lines = <<>>
    /\ mode = "none"
    /\ count = 0
    /\ fill_with_first = TRUE
    /\ start_line = NoLine
    /\ end_line = NoLine
    /\ raw_data = <<>>
    /\ result = NotLoaded

IdleConfig ==
    /\ configs = <<>>
    /\ env_name = "none"
    /\ target_config = NoConfig

\* ------------------------------------------------ callers of the writer
\* write_data(item) by a caller that found the writer running: the item is put
\* at once when a slot is free. (A full queue leaves the caller in its
\* sleep loop, see the Retry actions.)
PutItem_Front(item) ==
    /\ write_queue' = <<item>> \o write_queue
    /\ handed' = Append(handed, item)

PutItem(item) ==
    /\ write_queue' = Append(write_queue, item)
    /\ handed' = Append(handed, item)

\* ------------------------------------- the streamed source and the producer
LineKinds == {"ok", "bad", "blank"}

\* asyncio.Queue.full() of data_queue.
DataQueueFull_Never == FALSE
DataQueueFull == Len(data_queue) >= buffer_size

\* load_data_with_queue marks the end of the stream, after the loop and in its
\* exception handler alike: `await queue.put(None)` waits for a free slot.
MarkEnd_Twice ==
    IF DataQueueFull
      THEN /\ ppc' = "put_none"
           /\ UNCHANGED data_queue
      ELSE /\ ppc' = "done"
           /\ data_queue' = data_queue \o <<None, None>>

MarkEnd ==
    IF DataQueueFull
      THEN /\ ppc' = "put_none"
           /\ UNCHANGED data_queue
      ELSE /\ ppc' = "done"
           /\ data_queue' = Append(data_queue, None)

\* f.readline() returns a line. A well-formed line is yielded and put into the
\* queue, or held while the queue is full; a blank or malformed line is skipped.
ProducerReadLine(kind) ==
    /\ ppc = "read"
    /\ Len(src) < MaxLines
    /\ src' = Append(src, kind)
    /\ IF kind = "ok"
         THEN /\ line_num' = line_num + 1
              /\ IF DataQueueFull
                   THEN /\ ppc' = "wait_full"
                        /\ pdata' = line_num + 1
                        /\ UNCHANGED data_queue
                   ELSE /\ data_queue' = Append(data_queue, line_num + 1)
                        /\ UNCHANGED <<ppc, pdata>>
         ELSE UNCHANGED <<line_num, ppc, pdata, data_queue>>
    /\ UNCHANGED readFailed
    /\ UNCHANGED <<max_workers, buffer_size, cpc, cdata, cout,
                   processed_count, results, epc>>
    /\ UNCHANGED <<writerVars, callVars, harnessVars, clientVars>>
    /\ UNCHANGED <<dispatchVars, reportVars, loadVars, configVars>>

\* f.readline() returns the empty string: the reader ends, the stream is marked.
ProducerEOF ==
    /\ ppc = "read"
    /\ MarkEnd
    /\ UNCHANGED <<src, pdata, line_num, readFailed>>
    /\ UNCHANGED <<max_workers, buffer_size, cpc, cdata, cout,
                   processed_count, results, epc>>
    /\ UNCHANGED <<writerVars, callVars, harnessVars, clientVars>>
    /\ UNCHANGED <<dispatchVars, reportVars, loadVars, configVars>>

\* aiofiles.open or f.readline raises (file missing, read error): the reader
\* re-raises, load_data_with_queue catches, prints and marks the stream.
ProducerReadError ==
    /\ ppc = "read"
    /\ readFailed' = TRUE
    /\ MarkEnd
    /\ UNCHANGED <<src, pdata, line_num>>
    /\ UNCHANGED <<max_workers, buffer_size, cpc, cdata, cout,
                   processed_count, results, epc>>
    /\ UNCHANGED <<writerVars, callVars, harnessVars, clientVars>>
    /\ UNCHANGED <<dispatchVars, reportVars, loadVars, configVars>>

\* The `while queue.full(): sleep` loop finds a free slot: the held record is put.
ProducerPut ==
    /\ ppc = "wait_full"
    /\ ~DataQueueFull
    /\ data_queue' = Append(data_queue, pdata)
    /\ ppc' = "read"
    /\ pdata' = None
    /\ UNCHANGED <<src, line_num, readFailed>>
    /\ UNCHANGED <<max_workers, buffer_size, cpc, cdata, cout,
                   processed_count, results, epc>>
    /\ UNCHANGED <<writerVars, callVars, harnessVars, clientVars>>
    /\ UNCHANGED <<dispatchVars, reportVars, loadVars, configVars>>

\* The waiting `await queue.put(None)` gets a free slot.
ProducerPutNone ==
    /\ ppc = "put_none"
    /\ ~DataQueueFull
    /\ data_queue' = Append(data_queue, None)
    /\ ppc' = "done"
    /\ UNCHANGED <<src, pdata, line_num, readFailed>>
    /\ UNCHANGED <<max_workers, buffer_size, cpc, cdata, cout,
                   processed_count, results, epc>>
    /\ UNCHANGED <<writerVars, callVars, harnessVars, clientVars>>
    /\ UNCHANGED <<dispatchVars, reportVars, loadVars, configVars>>

\* ------------------------------------------------------------ the consumers
ActiveWorkers == {w \in Workers : w < max_workers}

PostOutcomes == {"response", "raise"}

\* The response dict handed to report_generator.add_request: the one post
\* returned, or the error_response built in the handler.
Response(outcome, rec) ==
    [status |-> IF outcome = "response" THEN OkStatus ELSE FailureStatus,
     timed |-> outcome = "response",
     duration_ms |-> IF outcome = "response" THEN 10 ELSE 0,
     rec |-> rec]

\* The dict http_inference_consumer returns: an entry of results.
Result(line) == line

\* _consumer after consumer_func returned: append under the lock, count.
Collected_Dropped(w, line) ==
    /\ results' = results
    /\ processed_count' = [processed_count EXCEPT ![w] = processed_count[w] + 1]

Collected(w, line) ==
    /\ results' = Append(results, Result(line))
    /\ processed_count' = [processed_count EXCEPT ![w] = processed_count[w] + 1]

\* What data_queue.get() leaves in the queue.
Dequeued_Peek(queue) == queue
Dequeued(queue) == Tail(queue)

\* self.requests.append(response) of add_request.
RequestsAppend_Overwrite(reqs, response) ==
    IF reqs = <<>> THEN <<response>> ELSE [reqs EXCEPT ![Len(reqs)] = response]

RequestsAppend(reqs, response) == Append(reqs, response)

\* data_queue.get() returns: the marker ends the consumer, a record is
\* handed to consumer_func, which starts the request.
ConsumerGet(w) ==
    /\ w \in ActiveWorkers
    /\ cpc[w] = "get"
    /\ data_queue # <<>>
    /\ data_queue' = Dequeued(data_queue)
    /\ IF Head(data_queue) = None
         THEN /\ cpc' = [cpc EXCEPT ![w] = "done"]
              /\ UNCHANGED cdata
         ELSE /\ cpc' = [cpc EXCEPT ![w] = "post"]
              /\ cdata' = [cdata EXCEPT ![w] = Head(data_queue)]
    /\ UNCHANGED <<max_workers, buffer_size, cout, processed_count, results, epc>>
    /\ UNCHANGED <<writerVars, callVars, harnessVars, sourceVars, clientVars>>
    /\ UNCHANGED <<dispatchVars, reportVars, loadVars, configVars>>

\* client.post returns or raises. http_inference_consumer records the response
\* (or the error_response) in the report and writes it; a write_data that
\* raises in the try block runs the handler, which records an error_response
\* and writes again; a write_data that raises in the handler leaves
\* consumer_func, and _consumer prints and goes on without a result.
ConsumerPost(w, outcome) ==
    /\ w \in ActiveWorkers
    /\ cpc[w] = "post"
    /\ LET num == processed_count[w] + 1
           rec == cdata[w]
           line == Line(w, num, rec, outcome = "raise")
           first == RequestsAppend(requests, Response(outcome, rec))
       IN
         IF ~response_writer
           THEN /\ requests' = first
                /\ Collected(w, line)
                /\ cpc' = [cpc EXCEPT ![w] = "get"]
                /\ UNCHANGED <<write_queue, handed, cout>>
           ELSE IF ~is_running
             THEN /\ requests' = IF outcome = "response"
                                   THEN Append(first, Response("raise", rec))
                                   ELSE first
                  /\ cpc' = [cpc EXCEPT ![w] = "get"]
                  /\ UNCHANGED <<write_queue, handed, cout, results, processed_count>>
             ELSE IF WriteQueueFull
               THEN /\ requests' = first
                    /\ cpc' = [cpc EXCEPT ![w] = "write"]
                    /\ cout' = [cout EXCEPT ![w] = line]
                    /\ UNCHANGED <<write_queue, handed, results, processed_count>>
               ELSE /\ requests' = first
                    /\ PutItem(line)
                    /\ Collected(w, line)
                    /\ cpc' = [cpc EXCEPT ![w] = "get"]
                    /\ UNCHANGED cout
    /\ UNCHANGED <<max_workers, buffer_size, data_queue, cdata, epc>>
    /\ UNCHANGED <<wbuf, flush_count, flush_interval, is_running,
                   total_written, elapsed, wpc, wdata, file, flushed>>
    /\ UNCHANGED <<stop_pc, stopCalls, handedAtStop>>
    /\ UNCHANGED <<response_writer, request_body_path, concurrent_bodies_path,
                   read_mode, request_bodies, rpc>>
    /\ UNCHANGED <<harnessVars, sourceVars>>
    /\ UNCHANGED <<dispatchVars, reportVars, loadVars, configVars>>

\* The sleep loop of the consumer's write_data finds a free slot.
ConsumerWrite(w) ==
    /\ w \in ActiveWorkers
    /\ cpc[w] = "write"
    /\ ~WriteQueueFull
    /\ PutItem(cout[w])
    /\ Collected(w, cout[w])
    /\ cpc' = [cpc EXCEPT ![w] = "get"]
    /\ UNCHANGED <<max_workers, buffer_size, data_queue, cdata, cout, epc>>
    /\ UNCHANGED <<wbuf, flush_count, flush_interval, is_running,
                   total_written, elapsed, wpc, wdata, file, flushed>>
    /\ UNCHANGED <<stop_pc, stopCalls, handedAtStop>>
    /\ UNCHANGED <<harnessVars, sourceVars, clientVars>>
    /\ UNCHANGED <<dispatchVars, reportVars, loadVars, configVars>>

\* ------------------------------------------- producer_consumer_executor
\* The queue, the results list and the tasks are created.
ExecStarted ==
    /\ data_queue' = <<>>
    /\ results' = <<>>
    /\ ppc' = "read"
    /\ cpc' = [w \in Workers |-> IF w < max_workers THEN "get" ELSE "none"]
    /\ epc' = "running"

\* asyncio.gather(producer_task, *consumer_tasks) is over.
GatherDone_ProducerOnly == ppc = "done"
GatherDone == ppc = "done" /\ \A w \in ActiveWorkers : cpc[w] = "done"

ExecReturn ==
    /\ epc = "running"
    /\ GatherDone
    /\ epc' = "returned"
    /\ UNCHANGED <<max_workers, buffer_size, data_queue, cpc, cdata, cout,
                   processed_count, results>>
    /\ UNCHANGED <<writerVars, callVars, harnessVars, sourceVars, clientVars>>
    /\ UNCHANGED <<dispatchVars, reportVars, loadVars, configVars>>

PipeNext ==
    \/ \E kind \in LineKinds : ProducerReadLine(kind)
    \/ ProducerEOF
    \/ ProducerReadError
    \/ ProducerPut
    \/ ProducerPutNone
    \/ \E w \in Workers : ConsumerGet(w)
    \/ \E w \in Workers, outcome \in PostOutcomes : ConsumerPost(w, outcome)
    \/ ExecReturn

\* producer_consumer_executor called with http_inference_consumer on a client
\* without a writer, as inference_concurrent_requests_from_file does, for
\* every max_workers and buffer_size within the bounds.
InitExec ==
    /\ IdleLoad
    /\ IdleConfig
    /\ IdleDispatch
    /\ IdleReport
    /\ NoWriter
    /\ IdleHarness
    /\ IdleClient
    /\ src = <<>>
    /\ ppc = "read"
    /\ pdata = None
    /\ line_num = 0
    /\ readFailed = FALSE
    /\ max_workers \in 1 .. MaxWorkers
    /\ buffer_size \in 1 .. MaxBuf
    /\ data_queue = <<>>
    /\ cpc = [w \in Workers |-> IF w < max_workers THEN "get" ELSE "none"]
    /\ cdata = [w \in Workers |-> None]
    /\ cout = [w \in Workers |-> StopMarker]
    /\ processed_count = [w \in Workers |-> 0]
    /\ results = <<>>
    /\ epc = "running"

SpecExec == InitExec /\ [][PipeNext]_vars

\* producer_consumer_executor called with http_inference_consumer on a client
\* that has no writer, or whose response_writer is an AsyncDataWriter that
\* was created and not started: its write_data raises RuntimeError.
InitExecUnstarted ==
    /\ IdleLoad
    /\ IdleConfig
    /\ IdleDispatch
    /\ IdleReport
    /\ wbuf = 1
    /\ flush_count = 1
    /\ flush_interval = 1
    /\ WriterNew
    /\ IdleHarness
    /\ requests = <<>>
    /\ response_writer \in BOOLEAN
    /\ request_body_path = "none"
    /\ concurrent_bodies_path = "none"
    /\ read_mode = "stream"
    /\ request_bodies = 0
    /\ rpc = "none"
    /\ src = <<>>
    /\ ppc = "read"
    /\ pdata = None
    /\ line_num = 0
    /\ readFailed = FALSE
    /\ max_workers \in 1 .. MaxWorkers
    /\ buffer_size \in 1 .. MaxBuf
    /\ data_queue = <<>>
    /\ cpc = [w \in Workers |-> IF w < max_workers THEN "get" ELSE "none"]
    /\ cdata = [w \in Workers |-> None]
    /\ cout = [w \in Workers |-> StopMarker]
    /\ processed_count = [w \in Workers |-> 0]
    /\ results = <<>>
    /\ epc = "running"

SpecExecUnstarted == InitExecUnstarted /\ [][PipeNext]_vars

\* ---------------------------------------------------- the writer harness
\* A main task starts the writer, callers write concurrently, the main task
\* stops the writer at a moment of its choice.
HarnessStart ==
    /\ mpc = "new"
    /\ WriterStarted
    /\ mpc' = "started"
    /\ UNCHANGED <<wbuf, flush_count, flush_interval, write_queue,
                   total_written, elapsed, wdata, file, flushed>>
    /\ UNCHANGED <<callVars, apc, adata, issued>>
    /\ UNCHANGED <<sourceVars, pipeVars, clientVars>>
    /\ UNCHANGED <<dispatchVars, reportVars, loadVars, configVars>>

\* write_data's first statement: `if not self.is_running: raise RuntimeError`.
WriteRejected_Never == FALSE
WriteRejected == ~is_running

\* write_data: raises when not running, else puts or enters the sleep loop.
HarnessWrite(c) ==
    /\ apc[c] = "idle"
    /\ issued < MaxItems
    /\ issued' = issued + 1
    /\ LET item == Line(0 - 1, issued + 1, issued + 1, FALSE) IN
         IF WriteRejected
           THEN UNCHANGED <<write_queue, handed, apc, adata>>
           ELSE IF WriteQueueFull
             THEN /\ apc' = [apc EXCEPT ![c] = "blocked"]
                  /\ adata' = [adata EXCEPT ![c] = item]
                  /\ UNCHANGED <<write_queue, handed>>
             ELSE /\ PutItem(item)
                  /\ UNCHANGED <<apc, adata>>
    /\ UNCHANGED <<wbuf, flush_count, flush_interval, is_running,
                   total_written, elapsed, wpc, wdata, file, flushed>>
    /\ UNCHANGED <<stop_pc, stopCalls, handedAtStop, mpc>>
    /\ UNCHANGED <<sourceVars, pipeVars, clientVars>>
    /\ UNCHANGED <<dispatchVars, reportVars, loadVars, configVars>>

\* The sleep loop of write_data finds a free slot and puts.
HarnessRetry(c) ==
    /\ apc[c] = "blocked"
    /\ ~WriteQueueFull
    /\ PutItem(adata[c])
    /\ apc' = [apc EXCEPT ![c] = "idle"]
    /\ UNCHANGED <<wbuf, flush_count, flush_interval, is_running,
                   total_written, elapsed, wpc, wdata, file, flushed>>
    /\ UNCHANGED <<stop_pc, stopCalls, handedAtStop, mpc, adata, issued>>
    /\ UNCHANGED <<sourceVars, pipeVars, clientVars>>
    /\ UNCHANGED <<dispatchVars, reportVars, loadVars, configVars>>

\* The main task calls stop().
HarnessStop ==
    /\ mpc = "started"
    /\ StopInvoked
    /\ mpc' = "stopping"
    /\ UNCHANGED writerVars
    /\ UNCHANGED <<handed, apc, adata, issued>>
    /\ UNCHANGED <<sourceVars, pipeVars, clientVars>>
    /\ UNCHANGED <<dispatchVars, reportVars, loadVars, configVars>>

\* stop() is over for the main task.
HarnessStopped ==
    /\ mpc = "stopping"
    /\ stop_pc \in {"returned", "raised"}
    /\ mpc' = IF stop_pc = "returned" THEN "stopped" ELSE "stop_raised"
    /\ UNCHANGED writerVars
    /\ UNCHANGED <<callVars, apc, adata, issued>>
    /\ UNCHANGED <<sourceVars, pipeVars, clientVars>>
    /\ UNCHANGED <<dispatchVars, reportVars, loadVars, configVars>>

InitSink ==
    /\ IdleLoad
    /\ IdleConfig
    /\ IdleDispatch
    /\ IdleReport
    /\ InitWriter
    /\ mpc = "new"
    /\ apc = [c \in Callers |-> "idle"]
    /\ adata = [c \in Callers |-> StopMarker]
    /\ issued = 0
    /\ IdlePipeline
    /\ IdleClient

WriterNext ==
    \/ WriterOpen
    \/ WriterGet
    \/ WriterTimeout
    \/ WriterWrite
    \/ WriterFlush
    \/ WriterFinal
    \/ Tick
    \/ StopPut
    \/ StopJoin

NextSink ==
    \/ WriterNext
    \/ HarnessStart
    \/ \E c \in Callers : HarnessWrite(c)
    \/ \E c \in Callers : HarnessRetry(c)
    \/ HarnessStop
    \/ HarnessStopped

SpecSink == InitSink /\ [][NextSink]_vars

\* The writer task keeps running while it can take a step, time passes, and
\* a stop() that was invoked goes on; nobody has to call write_data or stop().
WriterStep ==
    \/ WriterOpen
    \/ WriterGet
    \/ WriterTimeout
    \/ WriterWrite
    \/ WriterFlush
    \/ WriterFinal

FairSpecSink ==
    /\ SpecSink
    /\ WF_vars(WriterStep)
    /\ WF_vars(Tick)
    /\ WF_vars(StopPut \/ StopJoin)

\* A line the file holds before the writer is started.
EarlierLine == [request_num |-> 0, rec |-> 0, worker_id |-> 0 - 2, err |-> FALSE]
Earlier == <<EarlierLine>>

\* After stop() has returned the main task calls start() again.
HarnessRestart ==
    /\ mpc = "stopped"
    /\ stopCalls < MaxCycles
    /\ WriterStarted
    /\ mpc' = "started"
    /\ UNCHANGED <<wbuf, flush_count, flush_interval, write_queue,
                   total_written, elapsed, wdata, file, flushed>>
    /\ UNCHANGED <<callVars, apc, adata, issued>>
    /\ UNCHANGED <<sourceVars, pipeVars, clientVars>>
    /\ UNCHANGED <<dispatchVars, reportVars, loadVars, configVars>>

\* A writer with the defaults (scaled as in the run) on a file that already
\* holds a flushed line; it is started and stopped up to MaxCycles times.
InitCycle ==
    /\ IdleLoad
    /\ IdleConfig
    /\ IdleDispatch
    /\ IdleReport
    /\ wbuf \in 1 .. MaxWBuf
    /\ flush_count = (wbuf + 1) \div 2
    /\ flush_interval = 1
    /\ is_running = FALSE
    /\ write_queue = <<>>
    /\ total_written = 0
    /\ elapsed = flush_interval
    /\ wpc = "none"
    /\ wdata = StopMarker
    /\ file = Earlier
    /\ flushed = Len(Earlier)
    /\ handed = <<>>
    /\ stop_pc = "idle"
    /\ stopCalls = 0
    /\ handedAtStop = <<>>
    /\ mpc = "new"
    /\ apc = [c \in Callers |-> "idle"]
    /\ adata = [c \in Callers |-> StopMarker]
    /\ issued = 0
    /\ IdlePipeline
    /\ IdleClient

NextCycle ==
    \/ NextSink
    \/ HarnessRestart

SpecCycle == InitCycle /\ [][NextCycle]_vars

\* ------------------------------------------- http_inference_consumer
\* The calls the single consumer of a run makes, one after the other, with
\* request_num = 1, 2, ..., on a client whose writer is started.

\* What the remote side does with a request: it answers with a status and a
\* body that is JSON or plain text, or the transport fails.
ServerStatuses == {OkStatus, 503}
Answers ==
    [kind : {"answer"}, status : ServerStatuses, body : {"json", "text"}]
        \cup {[kind |-> "failure", status |-> 0, body |-> "none"]}

\* `await response.json()` raises on a body that is not JSON; so does
\* session.post on a transport failure.
PostRaises(answer) == answer.kind = "failure" \/ answer.body # "json"

\* _generate_request_id: uuid4 is taken to return a value it never returned.
GenerateRequestId == minted + 1

\* A Throttler that was just created has admitted nothing: its first
\* `async with` enters without waiting.
NewThrottler == <<>>
Admits(task_logs) == Len(task_logs) < rate_limit

\* The dict post returns.
PostReturn(answer, num) ==
    [status |-> answer.status, body |-> answer.body, request_id |-> request_id,
     duration_ms |-> now - start_time, timed |-> TRUE, rec |-> num]

\* The error_response of the handler.
ErrorResponse_Timed(num) ==
    [status |-> FailureStatus, body |-> "error", request_id |-> Unknown,
     duration_ms |-> now - start_time, timed |-> FALSE, rec |-> num]

ErrorResponse(num) ==
    [status |-> FailureStatus, body |-> "error", request_id |-> Unknown,
     duration_ms |-> 0, timed |-> FALSE, rec |-> num]

\* response_data / error_data, the line for the writer; the dict the call
\* returns has the same entries but the timestamp.
OutcomeLine(num, response) ==
    [request_num |-> num, rec |-> num, worker_id |-> 0,
     err |-> response.body = "error", request_id |-> response.request_id,
     status |-> response.status]

\* http_inference_consumer is called: a new AsyncHttpClient with a new
\* Throttler and session; post mints the request id, takes start_time,
\* enters the throttler and sends the request.
DispatchBegin ==
    /\ dpc = "idle"
    /\ dispatched < MaxDispatch
    /\ Admits(NewThrottler)
    /\ dispatched' = dispatched + 1
    /\ minted' = minted + 1
    /\ request_id' = GenerateRequestId
    /\ start_time' = now
    /\ steps' = <<"timer", "permit", "send">>
    /\ starts' = Append(starts, now)
    /\ dpc' = "call"
    /\ UNCHANGED <<now, rate_limit, answers, dout>>
    /\ UNCHANGED <<writerVars, callVars, harnessVars, sourceVars, pipeVars,
                   clientVars, reportVars, loadVars, configVars>>

\* The request is over. An answer with a JSON body: post stops the timer and
\* returns, the response is recorded and written. Else post raises and the
\* handler records and writes an error_response. A write_data that raises in
\* the try block runs the handler too; one that raises in the handler leaves
\* the call.
DispatchAnswer(answer) ==
    /\ dpc = "call"
    /\ answers' = Append(answers, answer)
    /\ steps' = IF PostRaises(answer) THEN steps ELSE Append(steps, "stop")
    /\ LET num == dispatched
           response == IF PostRaises(answer)
                         THEN ErrorResponse(num)
                         ELSE PostReturn(answer, num)
           line == OutcomeLine(num, response)
           first == Append(requests, response)
       IN
         IF ~response_writer
           THEN /\ requests' = first
                /\ results' = Append(results, line)
                /\ dpc' = "idle"
                /\ UNCHANGED <<write_queue, handed, dout>>
           ELSE IF ~is_running
             THEN /\ requests' = IF PostRaises(answer)
                                   THEN first
                                   ELSE Append(first, ErrorResponse(num))
                  /\ dpc' = "idle"
                  /\ UNCHANGED <<write_queue, handed, dout, results>>
             ELSE IF WriteQueueFull
               THEN /\ requests' = first
                    /\ dpc' = "write"
                    /\ dout' = line
                    /\ UNCHANGED <<write_queue, handed, results>>
               ELSE /\ requests' = first
                    /\ PutItem(line)
                    /\ results' = Append(results, line)
                    /\ dpc' = "idle"
                    /\ UNCHANGED dout
    /\ UNCHANGED <<now, rate_limit, dispatched, minted, request_id,
                   start_time, starts>>
    /\ UNCHANGED <<wbuf, flush_count, flush_interval, is_running,
                   total_written, elapsed, wpc, wdata, file, flushed>>
    /\ UNCHANGED <<stop_pc, stopCalls, handedAtStop>>
    /\ UNCHANGED <<max_workers, buffer_size, data_queue, cpc, cdata, cout,
                   processed_count, epc>>
    /\ UNCHANGED <<response_writer, request_body_path, concurrent_bodies_path,
                   read_mode, request_bodies, rpc>>
    /\ UNCHANGED <<harnessVars, sourceVars, reportVars, loadVars, configVars>>

\* The sleep loop of the call's write_data finds a free slot; the call returns.
DispatchWrite ==
    /\ dpc = "write"
    /\ ~WriteQueueFull
    /\ PutItem(dout)
    /\ results' = Append(results, dout)
    /\ dpc' = "idle"
    /\ UNCHANGED <<now, rate_limit, dispatched, minted, request_id,
                   start_time, steps, starts, answers, dout>>
    /\ UNCHANGED <<wbuf, flush_count, flush_interval, is_running,
                   total_written, elapsed, wpc, wdata, file, flushed>>
    /\ UNCHANGED <<stop_pc, stopCalls, handedAtStop>>
    /\ UNCHANGED <<max_workers, buffer_size, data_queue, cpc, cdata, cout,
                   processed_count, epc>>
    /\ UNCHANGED <<harnessVars, sourceVars, clientVars, reportVars, loadVars, configVars>>

\* One clock tick passes.
ClockTick ==
    /\ now < MaxClock
    /\ now' = now + 1
    /\ UNCHANGED <<rate_limit, dpc, dispatched, minted, request_id,
                   start_time, steps, starts, answers, dout>>
    /\ UNCHANGED <<writerVars, callVars, harnessVars, sourceVars, pipeVars,
                   clientVars, reportVars, loadVars, configVars>>

\* run_all_inference has started the writer (its task has opened the file)
\* and the pipeline's consumer is about to make its first call.
InitDispatch ==
    /\ IdleLoad
    /\ IdleConfig
    /\ wbuf = 1
    /\ flush_count = 1
    /\ flush_interval = 0
    /\ is_running = TRUE
    /\ write_queue = <<>>
    /\ total_written = 0
    /\ elapsed = 0
    /\ wpc = "get"
    /\ wdata = StopMarker
    /\ file = <<>>
    /\ flushed = 0
    /\ handed = <<>>
    /\ stop_pc = "idle"
    /\ stopCalls = 0
    /\ handedAtStop = <<>>
    /\ IdleHarness
    /\ IdlePipeline
    /\ requests = <<>>
    /\ response_writer = TRUE
    /\ request_body_path = "none"
    /\ concurrent_bodies_path = "file"
    /\ read_mode = "stream"
    /\ request_bodies = 0
    /\ rpc = "pipeline"
    /\ now = 0
    /\ rate_limit \in 1 .. MaxRate
    /\ dpc = "idle"
    /\ dispatched = 0
    /\ minted = 0
    /\ request_id = Unknown
    /\ start_time = 0
    /\ steps = <<>>
    /\ starts = <<>>
    /\ answers = <<>>
    /\ dout = StopMarker
    /\ IdleReport

NextDispatch ==
    \/ DispatchBegin
    \/ \E answer \in Answers : DispatchAnswer(answer)
    \/ DispatchWrite
    \/ ClockTick
    \/ WriterGet
    \/ WriterTimeout
    \/ WriterWrite
    \/ WriterFlush

SpecDispatch == InitDispatch /\ [][NextDispatch]_vars

\* ------------------------------------------------ RequestReportGenerator
\* Durations are in ms; the results of _percentile are kept exact, as
\* hundredths of a ms, and the mean as the fraction sum / count.
Percentiles == {50, 80, 90, 95, 99}
Samples == {5, 10, 20, 30, 40}

\* list.sort(), by insertion.
RECURSIVE Insert(_, _)
Insert(x, seq) ==
    IF seq = <<>> THEN <<x>>
    ELSE IF x <= Head(seq) THEN <<x>> \o seq
    ELSE <<Head(seq)>> \o Insert(x, Tail(seq))

RECURSIVE Sort(_)
Sort(seq) == IF seq = <<>> THEN <<>> ELSE Insert(Head(seq), Sort(Tail(seq)))

RECURSIVE Sum(_)
Sum(seq) == IF seq = <<>> THEN 0 ELSE Head(seq) + Sum(Tail(seq))

\* _percentile(data, percentile), in hundredths: index = percentile / 100 *
\* (len - 1); data[int(index)] when index is a whole number, else the value
\* between data[int(index)] and data[int(index) + 1]. Python's lists count
\* from 0, the sequences here from 1.
Percentile_NearestRank(d, p) ==
    IF d = <<>> THEN 0 ELSE 100 * d[(p * (Len(d) - 1)) \div 100 + 1]

Percentile(d, p) ==
    IF d = <<>> THEN 0
    ELSE LET index100 == p * (Len(d) - 1)
             int == index100 \div 100
             part == index100 % 100
         IN IF part = 0
              THEN 100 * d[int + 1]
              ELSE LET lower == d[int + 1]
                       upper == d[int + 2]
                   IN 100 * lower + (upper - lower) * part

\* generate_report: the loop over self.requests.
RECURSIVE StatusCounts(_)
StatusCounts(reqs) ==
    IF reqs = <<>> THEN <<>>
    ELSE LET before == StatusCounts(SubSeq(reqs, 1, Len(reqs) - 1))
             status == reqs[Len(reqs)].status
             old == IF status \in DOMAIN before THEN before[status] ELSE 0
         IN [st \in DOMAIN before \cup {status} |->
                IF st = status THEN old + 1 ELSE before[st]]

Durations_All(reqs) == [i \in 1 .. Len(reqs) |-> reqs[i].duration_ms]

RECURSIVE Durations(_)
Durations(reqs) ==
    IF reqs = <<>> THEN <<>>
    ELSE IF Head(reqs).duration_ms > 0
      THEN <<Head(reqs).duration_ms>> \o Durations(Tail(reqs))
      ELSE Durations(Tail(reqs))

\* A quotient a / b, kept exact; b = 0 is Python's ZeroDivisionError.
Ratio(a, b) == [num |-> a, den |-> b]
ZeroRatio == Ratio(0, 1)

DurationStats_Unguarded(durations) ==
    LET d == Sort(durations) IN
    [min_ms |-> IF d = <<>> THEN 0 ELSE d[1],
     max_ms |-> IF d = <<>> THEN 0 ELSE d[Len(d)],
     avg_ms |-> [sum |-> Sum(d), count |-> Len(d)],
     p50_ms |-> Percentile(d, 50),
     p80_ms |-> Percentile(d, 80),
     p90_ms |-> Percentile(d, 90),
     p95_ms |-> Percentile(d, 95),
     p99_ms |-> Percentile(d, 99)]

DurationStats(durations) ==
    IF durations = <<>> THEN <<>>
    ELSE LET d == Sort(durations) IN
         [min_ms |-> d[1],
          max_ms |-> d[Len(d)],
          avg_ms |-> [sum |-> Sum(d), count |-> Len(d)],
          p50_ms |-> Percentile(d, 50),
          p80_ms |-> Percentile(d, 80),
          p90_ms |-> Percentile(d, 90),
          p95_ms |-> Percentile(d, 95),
          p99_ms |-> Percentile(d, 99)]

\* sum(status_counts.values())
RECURSIVE SumValues(_)
SumValues(counts) ==
    IF DOMAIN counts = {} THEN 0
    ELSE LET st == CHOOSE x \in DOMAIN counts : TRUE
         IN counts[st] + SumValues([x \in DOMAIN counts \ {st} |-> counts[x]])

\* _generate_summary: the numbers of the summary text.
GenerateSummary(status_counts, duration_stats) ==
    LET total == SumValues(status_counts)
        success_count == IF OkStatus \in DOMAIN status_counts
                           THEN status_counts[OkStatus] ELSE 0
    IN [total |-> total,
        success_count |-> success_count,
        success_rate |-> IF total > 0
                           THEN Ratio(success_count * 100, total)
                           ELSE ZeroRatio]

GenerateReportOf(reqs) ==
    IF reqs = <<>>
      THEN [total_requests |-> 0, status_code_counts |-> <<>>,
            duration_stats |-> <<>>, summary |-> <<>>]
      ELSE [total_requests |-> Len(reqs),
            status_code_counts |-> StatusCounts(reqs),
            duration_stats |-> DurationStats(Durations(reqs)),
            summary |-> GenerateSummary(StatusCounts(reqs),
                                        DurationStats(Durations(reqs)))]

\* print_report's rpm: total_requests / (max_ms / 1000 / 60).
Rpm_TimedOnly(rep) ==
    IF DOMAIN rep.duration_stats # {}
      THEN Ratio(rep.duration_stats.avg_ms.count * 1000 * 60,
                 rep.duration_stats.max_ms)
      ELSE ZeroRatio

Rpm(rep) ==
    IF DOMAIN rep.duration_stats # {}
      THEN IF rep.duration_stats.max_ms > 0
             THEN Ratio(rep.total_requests * 1000 * 60, rep.duration_stats.max_ms)
             ELSE ZeroRatio
      ELSE ZeroRatio

\* The responses handed to add_request: error_responses, and the dicts post
\* returned.
Recorded ==
    {[status |-> FailureStatus, duration_ms |-> 0]}
        \cup [status : ServerStatuses, duration_ms : Samples \ {5}]

\* add_request(response)
AddRequest(response) ==
    /\ report = NoReport
    /\ Len(requests) < MaxRequests
    /\ requests' = Append(requests, response)
    /\ UNCHANGED <<response_writer, request_body_path, concurrent_bodies_path,
                   read_mode, request_bodies, rpc>>
    /\ UNCHANGED <<report, data, percentile, presult, rpm>>
    /\ UNCHANGED <<writerVars, callVars, harnessVars, sourceVars, pipeVars,
                   dispatchVars, loadVars, configVars>>

\* generate_report(), called once the run's requests are over.
GenerateReport ==
    /\ report = NoReport
    /\ report' = GenerateReportOf(requests)
    /\ UNCHANGED <<data, percentile, presult, rpm>>
    /\ UNCHANGED <<writerVars, callVars, harnessVars, sourceVars, pipeVars,
                   clientVars, dispatchVars, loadVars, configVars>>

\* print_report(): generate_report, then the rpm and the summary line.
PrintReport ==
    /\ report = NoReport
    /\ report' = GenerateReportOf(requests)
    /\ rpm' = Rpm(GenerateReportOf(requests))
    /\ UNCHANGED <<data, percentile, presult>>
    /\ UNCHANGED <<writerVars, callVars, harnessVars, sourceVars, pipeVars,
                   clientVars, dispatchVars, loadVars, configVars>>

InitReport ==
    /\ IdleLoad
    /\ IdleConfig
    /\ NoWriter
    /\ IdleHarness
    /\ IdlePipeline
    /\ IdleClient
    /\ IdleDispatch
    /\ IdleReport

NextReport ==
    \/ \E response \in Recorded : AddRequest(response)
    \/ GenerateReport
    \/ PrintReport

SpecReport == InitReport /\ [][NextReport]_vars

\* _percentile called on a sorted list, as generate_report does, or on the
\* empty list.
IsSorted(seq) == \A i, j \in DOMAIN seq : i < j => seq[i] <= seq[j]

PercentileCall ==
    /\ presult = 0 - 1
    /\ presult' = Percentile(data, percentile)
    /\ UNCHANGED <<report, data, percentile, rpm>>
    /\ UNCHANGED <<writerVars, callVars, harnessVars, sourceVars, pipeVars,
                   clientVars, dispatchVars, loadVars, configVars>>

InitPercentile ==
    /\ IdleLoad
    /\ IdleConfig
    /\ NoWriter
    /\ IdleHarness
    /\ IdlePipeline
    /\ IdleClient
    /\ IdleDispatch
    /\ report = NoReport
    /\ rpm = NoRpm
    /\ data \in {d \in UNION {[1 .. n -> Samples] : n \in 0 .. MaxData} : IsSorted(d)}
    /\ percentile \in Percentiles
    /\ presult = 0 - 1

SpecPercentile == InitPercentile /\ [][PercentileCall]_vars

\* ------------------------------------------------------ run_all_inference
\* The single request's line: {'request_num': 1, 'response': response}.
SingleLine(outcome) == Line(0 - 1, 1, 0, outcome = "raise")

\* What follows the single request in the try block.
AfterSingle == IF concurrent_bodies_path = "file" THEN "mode" ELSE "stop"

\* The try block up to the first call: with concurrent_bodies_path the writer
\* is created and started.
RunBegin ==
    /\ rpc = "begin"
    /\ IF concurrent_bodies_path = "file"
         THEN /\ response_writer' = TRUE
              /\ WriterStarted
         ELSE UNCHANGED <<response_writer, is_running, wpc>>
    /\ rpc' = IF request_body_path # "none" THEN "single" ELSE AfterSingle
    /\ UNCHANGED <<wbuf, flush_count, flush_interval, write_queue,
                   total_written, elapsed, wdata, file, flushed>>
    /\ UNCHANGED <<requests, request_body_path, concurrent_bodies_path,
                   read_mode, request_bodies>>
    /\ UNCHANGED <<callVars, harnessVars, sourceVars, pipeVars>>
    /\ UNCHANGED <<dispatchVars, reportVars, loadVars, configVars>>

\* inference_single_request_from_file: load_data(first_n, 1) raises on a
\* missing file, an empty list raises ValueError; else the request is sent.
RunSingle ==
    /\ rpc = "single"
    /\ rpc' = IF request_body_path = "ok" THEN "single_post" ELSE "except"
    /\ UNCHANGED <<requests, response_writer, request_body_path,
                   concurrent_bodies_path, read_mode, request_bodies>>
    /\ UNCHANGED <<writerVars, callVars, harnessVars, sourceVars, pipeVars>>
    /\ UNCHANGED <<dispatchVars, reportVars, loadVars, configVars>>

\* The single request's post returns or raises (inference_single_request turns
\* the exception into an error_response); the response is recorded and written.
\* Nothing else has written yet, so write_data finds the queue empty.
RunSinglePost(outcome) ==
    /\ rpc = "single_post"
    /\ ~(response_writer /\ WriteQueueFull)
    /\ requests' = Append(requests, Response(outcome, 0))
    /\ IF response_writer
         THEN PutItem(SingleLine(outcome))
         ELSE UNCHANGED <<write_queue, handed>>
    /\ rpc' = AfterSingle
    /\ UNCHANGED <<wbuf, flush_count, flush_interval, is_running,
                   total_written, elapsed, wpc, wdata, file, flushed>>
    /\ UNCHANGED <<stop_pc, stopCalls, handedAtStop>>
    /\ UNCHANGED <<response_writer, request_body_path, concurrent_bodies_path,
                   read_mode, request_bodies>>
    /\ UNCHANGED <<harnessVars, sourceVars, pipeVars>>
    /\ UNCHANGED <<dispatchVars, reportVars, loadVars, configVars>>

\* inference_concurrent_requests_with_mode, full_load without a line range:
\* producer_consumer_executor is called with max_workers=1.
RunStream ==
    /\ rpc = "mode"
    /\ read_mode = "stream"
    /\ ExecStarted
    /\ rpc' = "pipeline"
    /\ UNCHANGED <<max_workers, buffer_size, cdata, cout, processed_count>>
    /\ UNCHANGED <<src, pdata, line_num, readFailed>>
    /\ UNCHANGED <<requests, response_writer, request_body_path,
                   concurrent_bodies_path, read_mode, request_bodies>>
    /\ UNCHANGED <<writerVars, callVars, harnessVars>>
    /\ UNCHANGED <<dispatchVars, reportVars, loadVars, configVars>>

\* inference_concurrent_requests_with_mode, any other mode: load_data returns
\* the list of n records, then self.test_concurrent_requests, an attribute the
\* class does not have, raises AttributeError before any request is sent.
RunList(n) ==
    /\ rpc = "mode"
    /\ read_mode = "list"
    /\ request_bodies' = n
    /\ rpc' = "except"
    /\ UNCHANGED <<requests, response_writer, request_body_path,
                   concurrent_bodies_path, read_mode>>
    /\ UNCHANGED <<writerVars, callVars, harnessVars, sourceVars, pipeVars>>
    /\ UNCHANGED <<dispatchVars, reportVars, loadVars, configVars>>

\* producer_consumer_executor returned its results.
RunStreamDone ==
    /\ rpc = "pipeline"
    /\ epc = "returned"
    /\ rpc' = "stop"
    /\ UNCHANGED <<requests, response_writer, request_body_path,
                   concurrent_bodies_path, read_mode, request_bodies>>
    /\ UNCHANGED <<writerVars, callVars, harnessVars, sourceVars, pipeVars>>
    /\ UNCHANGED <<dispatchVars, reportVars, loadVars, configVars>>

\* self.report_generator.print_report() at the end of the try block.
ReportPrinted ==
    /\ report' = GenerateReportOf(requests)
    /\ rpm' = Rpm(GenerateReportOf(requests))

\* The end of the try block: stop the writer if there is one, then report.
RunStop ==
    /\ rpc = "stop"
    /\ IF response_writer
         THEN /\ StopInvoked
              /\ rpc' = "stopping"
              /\ UNCHANGED <<report, rpm>>
         ELSE /\ rpc' = "returned"
              /\ ReportPrinted
              /\ UNCHANGED <<stop_pc, stopCalls, handedAtStop>>
    /\ UNCHANGED handed
    /\ UNCHANGED <<requests, response_writer, request_body_path,
                   concurrent_bodies_path, read_mode, request_bodies>>
    /\ UNCHANGED <<writerVars, harnessVars, sourceVars, pipeVars>>
    /\ UNCHANGED <<data, percentile, presult>>
    /\ UNCHANGED <<dispatchVars, loadVars, configVars>>

\* stop() returned: response_writer = None, the report is printed, the run
\* returns. stop() raised: the handler runs.
RunStopDone ==
    /\ rpc = "stopping"
    /\ stop_pc \in {"returned", "raised"}
    /\ IF stop_pc = "returned"
         THEN /\ response_writer' = FALSE
              /\ rpc' = "returned"
              /\ ReportPrinted
         ELSE /\ rpc' = "except"
              /\ UNCHANGED <<response_writer, report, rpm>>
    /\ UNCHANGED <<requests, request_body_path, concurrent_bodies_path,
                   read_mode, request_bodies>>
    /\ UNCHANGED <<writerVars, callVars, harnessVars, sourceVars, pipeVars>>
    /\ UNCHANGED <<data, percentile, presult>>
    /\ UNCHANGED <<dispatchVars, loadVars, configVars>>

\* The except block: stop the writer if there is one, then re-raise.
HandlerStops_Never == FALSE
HandlerStops == response_writer

RunExcept ==
    /\ rpc = "except"
    /\ IF HandlerStops
         THEN /\ StopInvoked
              /\ rpc' = "except_stopping"
         ELSE /\ rpc' = "raised"
              /\ UNCHANGED <<stop_pc, stopCalls, handedAtStop>>
    /\ UNCHANGED handed
    /\ UNCHANGED <<requests, response_writer, request_body_path,
                   concurrent_bodies_path, read_mode, request_bodies>>
    /\ UNCHANGED <<writerVars, harnessVars, sourceVars, pipeVars>>
    /\ UNCHANGED <<dispatchVars, reportVars, loadVars, configVars>>

\* The handler's stop() is over: when it returned, response_writer = None and
\* the exception is re-raised; when it raised, its exception leaves the run.
RunExceptDone ==
    /\ rpc = "except_stopping"
    /\ stop_pc \in {"returned", "raised"}
    /\ response_writer' = IF stop_pc = "returned" THEN FALSE ELSE response_writer
    /\ rpc' = "raised"
    /\ UNCHANGED <<requests, request_body_path, concurrent_bodies_path,
                   read_mode, request_bodies>>
    /\ UNCHANGED <<writerVars, callVars, harnessVars, sourceVars, pipeVars>>
    /\ UNCHANGED <<dispatchVars, reportVars, loadVars, configVars>>

\* run_all_inference is called on a fresh client. The writer it creates gets
\* buffer_size=20 and the defaults flush_count=10, flush_interval=1.0; the
\* pipeline queue gets rate_limit*10 slots. The model scales these down: any
\* sizes within the bounds, with flush_count half the writer's buffer_size.
InitRun ==
    /\ IdleLoad
    /\ IdleConfig
    /\ IdleDispatch
    /\ IdleReport
    /\ wbuf \in 1 .. MaxWBuf
    /\ flush_count = (wbuf + 1) \div 2
    /\ flush_interval = 1
    /\ WriterNew
    /\ IdleHarness
    /\ src = <<>>
    /\ ppc = "none"
    /\ pdata = None
    /\ line_num = 0
    /\ readFailed = FALSE
    /\ max_workers = 1
    /\ buffer_size \in 1 .. MaxBuf
    /\ data_queue = <<>>
    /\ cpc = [w \in Workers |-> "none"]
    /\ cdata = [w \in Workers |-> None]
    /\ cout = [w \in Workers |-> StopMarker]
    /\ processed_count = [w \in Workers |-> 0]
    /\ results = <<>>
    /\ epc = "none"
    /\ requests = <<>>
    /\ response_writer = FALSE
    /\ request_body_path \in {"none", "missing", "empty", "ok"}
    /\ concurrent_bodies_path \in {"none", "file"}
    /\ read_mode \in {"stream", "list"}
    /\ request_bodies = 0
    /\ rpc = "begin"

RunNext ==
    \/ RunBegin
    \/ RunSingle
    \/ \E outcome \in PostOutcomes : RunSinglePost(outcome)
    \/ RunStream
    \/ \E n \in 0 .. MaxLines : RunList(n)
    \/ RunStreamDone
    \/ RunStop
    \/ RunStopDone
    \/ RunExcept
    \/ RunExceptDone

Next ==
    \/ RunNext
    \/ PipeNext
    \/ \E w \in Workers : ConsumerWrite(w)
    \/ WriterNext
    \/ WriterFail

Init == InitRun

Spec == Init /\ [][Next]_vars

\* Each task of the event loop keeps running while it can take a step.
ProducerStep ==
    \/ \E kind \in LineKinds : ProducerReadLine(kind)
    \/ ProducerEOF
    \/ ProducerReadError
    \/ ProducerPut
    \/ ProducerPutNone

ConsumerStep(w) ==
    \/ ConsumerGet(w)
    \/ \E outcome \in PostOutcomes : ConsumerPost(w, outcome)

FairSpecExec ==
    /\ SpecExec
    /\ WF_vars(ProducerStep)
    /\ \A w \in Workers : WF_vars(ConsumerStep(w))
    /\ WF_vars(ExecReturn)

\* ------------------------------------------------- DataHandler.load_data
\* A physical line of the file: a record "a" or "b", a line json.loads
\* rejects, or a line that is empty after strip().
FileLines == {"a", "b", "bad", "blank"}
ReadModes == {"specified_count", "full_load", "first_n", "random_n"}

\* count = None.
NoCount == 0 - 1

\* The files of at most n lines.
Files(n) == UNION {[1 .. k -> FileLines] : k \in 0 .. n}

\* json.loads(line) returns (it raises JSONDecodeError otherwise).
Parses_Any(line) == TRUE
Parses(line) == line # "bad"

\* The object json.loads builds from line n.
Record(ls, n) == [line |-> n, body |-> ls[n]]

\* _load_jsonl's loop from physical line n on.
RECURSIVE LoadJsonlFrom(_, _, _, _)
LoadJsonlFrom(ls, n, start, end) ==
    IF n > Len(ls) THEN <<>>
    ELSE IF ls[n] = "blank" THEN LoadJsonlFrom(ls, n + 1, start, end)
    ELSE IF start # NoLine /\ n < start THEN LoadJsonlFrom(ls, n + 1, start, end)
    ELSE IF end # NoLine /\ n > end THEN <<>>
    ELSE IF Parses(ls[n])
      THEN <<Record(ls, n)>> \o LoadJsonlFrom(ls, n + 1, start, end)
      ELSE LoadJsonlFrom(ls, n + 1, start, end)

LoadJsonl_HalfOpen(ls, start, end) ==
    LoadJsonlFrom(ls, 1, start, IF end = NoLine THEN NoLine ELSE end - 1)

LoadJsonl(ls, start, end) == LoadJsonlFrom(ls, 1, start, end)

\* What _process_data_by_mode leaves: the list it returns and the list it got.
Returns(list, raw) == [raised |-> FALSE, data |-> list, raw_data |-> raw]
Raises(raw) == [raised |-> TRUE, data |-> <<>>, raw_data |-> raw]

\* raw_data[:k]
Take(raw, k) == SubSeq(raw, 1, k)

\* ReadMode.SPECIFIED_COUNT
SpecifiedCount_PadLast(raw, k, fill) ==
    IF k <= Len(raw) THEN {Returns(Take(raw, k), raw)}
    ELSE IF fill
      THEN {Returns([i \in 1 .. k |-> IF i <= Len(raw) THEN raw[i] ELSE raw[Len(raw)]], raw)}
      ELSE {Returns(raw, raw)}

SpecifiedCount(raw, k, fill) ==
    IF k <= Len(raw) THEN {Returns(Take(raw, k), raw)}
    ELSE IF fill
      THEN {Returns([i \in 1 .. k |-> IF i <= Len(raw) THEN raw[i] ELSE raw[1]], raw)}
      ELSE {Returns(raw, raw)}

\* ReadMode.FIRST_N
FirstN(raw, k) ==
    IF k > Len(raw) THEN {Returns(raw, raw)} ELSE {Returns(Take(raw, k), raw)}

\* random.sample(population, k): k items from k distinct positions, any order.
RandomSample_Choices(population, k) ==
    {[i \in 1 .. k |-> population[f[i]]] : f \in [1 .. k -> 1 .. Len(population)]}

RandomSample(population, k) ==
    {[i \in 1 .. k |-> population[f[i]]] :
        f \in {g \in [1 .. k -> 1 .. Len(population)] :
                  \A i, j \in 1 .. k : i # j => g[i] # g[j]}}

\* ReadMode.RANDOM_N
RandomN_Unguarded(raw, k) ==
    IF k > Len(raw) THEN {Raises(raw)}
    ELSE {Returns(list, raw) : list \in RandomSample(raw, k)}

RandomN(raw, k) ==
    IF k > Len(raw) THEN {Returns(raw, raw)}
    ELSE {Returns(list, raw) : list \in RandomSample(raw, k)}

\* _process_data_by_mode: every outcome it can have.
ProcessDataByMode(raw, m, k, fill) ==
    IF Len(raw) = 0 THEN {Returns(<<>>, raw)}
    ELSE IF m = "full_load" THEN {Returns(raw, raw)}
    ELSE IF m = "specified_count" THEN SpecifiedCount(raw, k, fill)
    ELSE IF m = "first_n" THEN FirstN(raw, k)
    ELSE RandomN(raw, k)

\* load_data's checks of its arguments, made before the file is opened.
ArgumentError ==
    \/ mode \in {"specified_count", "first_n", "random_n"} /\ count = NoCount
    \/ count # NoCount /\ count <= 0
    \/ start_line # NoLine /\ start_line <= 0
    \/ end_line # NoLine /\ end_line <= 0
    \/ start_line # NoLine /\ end_line # NoLine /\ start_line > end_line

\* load_data(file_path, mode, count, fill_with_first, start_line, end_line)
\* on a JSONL handler and an existing file.
LoadData ==
    /\ mode \in ReadModes
    /\ result = NotLoaded
    /\ IF ArgumentError
         THEN /\ result' = [raised |-> TRUE, read |-> FALSE, data |-> <<>>]
              /\ UNCHANGED raw_data
         ELSE \E out \in ProcessDataByMode(LoadJsonl(lines, start_line, end_line),
                                           mode, count, fill_with_first) :
                /\ result' = [raised |-> out.raised, read |-> TRUE, data |-> out.data]
                /\ raw_data' = out.raw_data
    /\ UNCHANGED <<lines, mode, count, fill_with_first, start_line, end_line>>
    /\ UNCHANGED <<writerVars, callVars, harnessVars, sourceVars, pipeVars,
                   clientVars, dispatchVars, reportVars, configVars>>

\* load_data is called on a file of at most MaxFile lines with any arguments:
\* fill_with_first is varied in the one mode that reads it.
InitLoad ==
    /\ NoWriter
    /\ IdleHarness
    /\ IdlePipeline
    /\ IdleClient
    /\ IdleDispatch
    /\ IdleReport
    /\ IdleConfig
    /\ lines \in Files(MaxFile)
    /\ mode \in ReadModes
    /\ count \in {NoCount} \cup (0 .. MaxCount)
    /\ fill_with_first \in {TRUE, FALSE}
    /\ mode # "specified_count" => fill_with_first = TRUE
    /\ start_line \in {NoLine} \cup (0 .. MaxFile)
    /\ end_line \in {NoLine} \cup (0 .. MaxFile)
    /\ raw_data = <<>>
    /\ result = NotLoaded

SpecLoad == InitLoad /\ [][LoadData]_vars

\* The two readers of a JSONL file: load_data, and the streaming reader that
\* feeds producer_consumer_executor.
InitRead == InitLoad \/ InitExec

NextRead ==
    \/ LoadData
    \/ PipeNext

SpecRead == InitRead /\ [][NextRead]_vars

\* ------------------------------------- RESTInferenceClient._load_env_config
EnvNames == {"dev", "prod"}

\* config.get('env') of an entry without the key.
Absent == "absent"

\* An entry of the config file: its env, and whether it has a 'name'.
ConfigEntries == [env : EnvNames \cup {Absent}, named : BOOLEAN]

\* The exception that leaves _load_env_config (every one is re-raised as
\* Exception by the outer handler).
ConfigRaised == [raised |-> TRUE, entry |-> 0]

\* env_counts[env]
EnvCount(cfgs, env) == Cardinality({i \in DOMAIN cfgs : cfgs[i].env = env})

\* conflicts is non-empty.
Conflicts(cfgs) == \E env \in EnvNames : EnvCount(cfgs, env) > 1

\* _load_env_config(env_name): the index of the entry returned, or a raise.
LoadEnvConfig(cfgs, name) ==
    IF Conflicts(cfgs) THEN ConfigRaised
    ELSE IF \E i \in DOMAIN cfgs : cfgs[i].env = name
      THEN LET i == CHOOSE k \in DOMAIN cfgs :
                        /\ cfgs[k].env = name
                        /\ \A j \in 1 .. k - 1 : cfgs[j].env # name
           IN IF cfgs[i].named
                THEN [raised |-> FALSE, entry |-> i]
                ELSE ConfigRaised
      ELSE ConfigRaised

\* RESTInferenceClient.__init__: self.config = self._load_env_config(env_name).
\* When it raises, no client exists and nothing is dispatched.
ClientInit ==
    /\ target_config = NoConfig
    /\ target_config' = LoadEnvConfig(configs, env_name)
    /\ UNCHANGED <<configs, env_name>>
    /\ UNCHANGED <<writerVars, callVars, harnessVars, sourceVars, pipeVars,
                   clientVars, dispatchVars, reportVars, loadVars>>

\* The constructor is called with a config file of at most MaxConfigs entries.
InitConfig ==
    /\ NoWriter
    /\ IdleHarness
    /\ IdlePipeline
    /\ IdleClient
    /\ IdleDispatch
    /\ IdleReport
    /\ IdleLoad
    /\ configs \in UNION {[1 .. k -> ConfigEntries] : k \in 0 .. MaxConfigs}
    /\ env_name \in EnvNames
    /\ target_config = NoConfig

SpecConfig == InitConfig /\ [][ClientInit]_vars

\* ------------------------------------------------------------ properties
\* How many entries of seq belong to record rec.
Count(seq, rec) == Cardinality({i \in DOMAIN seq : seq[i].rec = rec})

IsPrefix(p, q) == Len(p) <= Len(q) /\ \A i \in DOMAIN p : p[i] = q[i]

NoRepeats(seq) == \A i, j \in DOMAIN seq : i # j => seq[i] # seq[j]

\* Records in the pipeline queue (the marker is not one).
QueuedRecords == Cardinality({i \in DOMAIN data_queue : data_queue[i] # None})

\* Records read from the source and not yet taken by a consumer.
Unconsumed == QueuedRecords + (IF ppc = "wait_full" THEN 1 ELSE 0)

\* Records a consumer has taken and not finished.
InProcess == Cardinality({w \in ActiveWorkers : cpc[w] \in {"post", "write"}})

RunOver == rpc \in {"returned", "raised"}

\* C1: when the streaming pipeline of a run has returned, every record the
\* producer read (the well-formed lines of the source read so far, numbered
\* 1..line_num) has exactly one entry in results, exactly one in the report
\* and exactly one line handed to the writer; results has no other entry.
C1_OneOutcomePerRecord ==
    epc = "returned" =>
        /\ line_num = Cardinality({i \in DOMAIN src : src[i] = "ok"})
        /\ Len(results) = line_num
        /\ \A r \in 1 .. line_num :
             /\ Count(results, r) = 1
             /\ Count(requests, r) = 1
             /\ Count(handed, r) = 1

C1_Witness ==
    /\ epc = "returned"
    /\ line_num = 2
    /\ \E i, j \in DOMAIN results : results[i].err /\ ~results[j].err

\* C2: for every max_workers >= 1 every consumer ends, so the executor returns.
C2_ExecutorReturns == <>(epc = "returned")

\* C3: the executor returns only in a state where the producer is finished,
\* every consumer has exited, the queue holds no record and every record read
\* has its result.
C3_ReturnsAfterDrain ==
    epc = "returned" =>
        /\ ppc = "done"
        /\ \A w \in ActiveWorkers : cpc[w] = "done"
        /\ QueuedRecords = 0
        /\ Unconsumed = 0
        /\ InProcess = 0
        /\ Len(results) = line_num

C3_Witness ==
    /\ epc = "returned"
    /\ line_num = 2
    /\ Len(src) = 2

\* C4: once stop() has returned, every item whose write_data call returned
\* before stop() was invoked is in the file exactly once, in write order, and
\* flushed: the file is a repeat-free prefix of the handed items that covers
\* those handed before the stop, so N writes and then stop() leave N lines.
C4_StopDrains ==
    mpc = "stopped" =>
        /\ wpc = "done"
        /\ IsPrefix(handedAtStop, file)
        /\ IsPrefix(file, handed)
        /\ NoRepeats(file)
        /\ flushed = Len(file)
        /\ total_written = Len(file)
        /\ (Len(handedAtStop) = issued => Len(file) = issued)

C4_Witness ==
    /\ mpc = "stopped"
    /\ Len(handedAtStop) = MaxItems
    /\ Len(file) = MaxItems
    /\ flush_count = 2
    /\ wbuf = 1

C6_SequenceNumbersPermutation ==
    (rpc = "returned" /\ wpc = "done") =>
        /\ \A i, j \in DOMAIN file :
             i # j => file[i].request_num # file[j].request_num
        /\ {file[i].request_num : i \in DOMAIN file} = 1 .. Len(file)

\* C7: in the "list" branch every record load_data returned has been
\* dispatched and has its outcome when the call is over.
C7_ListRecordsDispatched ==
    (RunOver /\ read_mode = "list") =>
        Cardinality({i \in DOMAIN requests : requests[i].rec # 0}) = request_bodies

\* C8, for a streaming run without a single request: after a failure of the
\* writer task the run ends with an error: it does not report success, and
\* as long as it has not raised, some task can still take a step.
C8_WriterFailureEndsRun ==
    (wpc = "failed" /\ read_mode = "stream" /\ request_body_path = "none") =>
        /\ rpc # "returned"
        /\ rpc = "raised" \/ ENABLED Next

\* C9: when a run on which the writer was started is over, stop() has been
\* invoked and the writer task has ended; unless the task itself failed, every
\* item handed to write_data is in the file and flushed.
C9_StopOnEveryExit ==
    (RunOver /\ wpc # "none") =>
        /\ stopCalls >= 1
        /\ WriterTaskOver
        /\ (wpc = "done" =>
              /\ file = handed
              /\ flushed = Len(file)
              /\ write_queue = <<>>
              /\ ~is_running
              /\ ~response_writer)

C9_Witness ==
    /\ rpc = "raised"
    /\ wpc = "done"
    /\ Len(file) >= 1

\* C10: a run of the executor in which reading the source failed does not
\* return normally.
C10_ReadFailureRaises == ~(epc = "returned" /\ readFailed)

\* The position of step x in a post's steps.
Pos(seq, x) == CHOOSE i \in DOMAIN seq : seq[i] = x

\* The calls of http_inference_consumer that are over.
CallOver(i) == i < dispatched \/ (i = dispatched /\ dpc = "idle")

\* C11: a call of http_inference_consumer whose post raised returns normally
\* (its dict is in results); the report holds exactly one outcome of the call,
\* with status 500 and duration_ms 0, and exactly one line of the call, an
\* error line, was handed to the writer.
C11_TransportFailureRecorded ==
    \A i \in DOMAIN answers :
        PostRaises(answers[i]) =>
            /\ Count(requests, i) = 1
            /\ \A k \in DOMAIN requests :
                 requests[k].rec = i =>
                     /\ requests[k].status = FailureStatus
                     /\ requests[k].duration_ms = 0
            /\ Count(handed, i) = (IF CallOver(i) THEN 1 ELSE 0)
            /\ Count(results, i) = (IF CallOver(i) THEN 1 ELSE 0)
            /\ \A k \in DOMAIN handed : handed[k].rec = i => handed[k].err

C11_Witness ==
    /\ dpc = "idle"
    /\ dispatched = 2
    /\ answers[1].kind = "failure"
    /\ now > start_time
    /\ \E k \in DOMAIN file : file[k].rec = 1 /\ file[k].err

\* C12: an outcome of a request the server answered with a status other than
\* 2xx carries that status and the server's body.
C12_ServerStatusKept ==
    \A i \in DOMAIN answers :
        (answers[i].kind = "answer" /\ answers[i].status # OkStatus) =>
            \A k \in DOMAIN requests :
                requests[k].rec = i =>
                    /\ requests[k].status = answers[i].status
                    /\ requests[k].body = answers[i].body

\* C13: no two outcomes of a run carry the same request_id.
C13_RequestIdsUnique ==
    \A i, j \in DOMAIN requests :
        i # j => requests[i].request_id # requests[j].request_id

\* C14: with a clock tick of one second, no more than rate_limit requests
\* are sent within one tick.
C14_SharedRateLimit ==
    \A t \in 0 .. MaxClock :
        Cardinality({i \in DOMAIN starts : starts[i] = t}) <= rate_limit

\* C17: post enters the throttler before it starts the timer, sends the
\* request after that and stops the timer last.
C17_PermitBeforeTimer ==
    steps # <<>> =>
        /\ Pos(steps, "permit") < Pos(steps, "timer")
        /\ Pos(steps, "timer") < Pos(steps, "send")
        /\ \A i \in DOMAIN steps : steps[i] = "stop" => i = Len(steps)

\* C15: with flush_count > 0 never more than flush_count written items are
\* unflushed.
C15_CountFlush ==
    flush_count > 0 => Len(file) - flushed <= flush_count

\* C16: with flush_interval > 0 a written item is flushed at last, also when
\* no further item arrives and stop() is not called.
C16_TimeFlush ==
    (flush_interval > 0 /\ Len(file) > flushed) ~> (Len(file) = flushed)

\* The lines of the pipeline's consumer 0 in a sequence of lines.
IsPipelineLine(line) == line.worker_id = 0
PipelineLines(seq) == SelectSeq(seq, IsPipelineLine)

\* The outcomes of the pipeline's requests in the report, in completion order.
IsPipelineOutcome(response) == response.rec # 0
PipelineOutcomes == SelectSeq(requests, IsPipelineOutcome)

\* The k-th entry of seq belongs to the k-th record read.
InReadOrder(seq) == \A k \in DOMAIN seq : seq[k].rec = k

C19_PercentileInterpolates ==
    (presult # 0 - 1 /\ data # <<>>) =>
        LET n == Len(data)
            floor == CHOOSE k \in 0 .. n - 1 :
                         100 * k <= percentile * (n - 1)
                             /\ percentile * (n - 1) < 100 * (k + 1)
            rest == percentile * (n - 1) - 100 * floor
        IN /\ rest > 0 => floor + 1 <= n - 1
           /\ rest = 0 => presult = 100 * data[floor + 1]
           /\ rest > 0 =>
                presult - 100 * data[floor + 1]
                    = (data[floor + 2] - data[floor + 1]) * rest
           /\ (data = <<10, 20, 30, 40>> /\ percentile = 50) => presult = 2500
           /\ n = 1 => presult = 100 * data[1]

C19_Witness ==
    /\ data = <<10, 20, 30, 40>>
    /\ percentile = 50
    /\ presult = 2500

\* The outcomes of the report that carry a duration above 0.
TimedRequests == {i \in DOMAIN requests : requests[i].duration_ms > 0}

RECURSIVE SumOver(_, _)
SumOver(f, S) ==
    IF S = {} THEN 0
    ELSE LET x == CHOOSE y \in S : TRUE IN f[x] + SumOver(f, S \ {x})

\* C20: a generated report counts every recorded outcome, the per-status
\* counts add up to that total and each is the number of outcomes with that
\* status, and the latency statistics are those of exactly the outcomes with
\* duration_ms > 0: none when there is no such outcome.
C20_ReportTotals ==
    report.total_requests >= 0 =>
        LET counts == report.status_code_counts
            stats == report.duration_stats
            timed == [i \in TimedRequests |-> requests[i].duration_ms]
        IN /\ report.total_requests = Len(requests)
           /\ DOMAIN counts = {requests[i].status : i \in DOMAIN requests}
           /\ \A st \in DOMAIN counts :
                counts[st] = Cardinality({i \in DOMAIN requests :
                                             requests[i].status = st})
           /\ SumOver(counts, DOMAIN counts) = report.total_requests
           /\ (TimedRequests = {}) = (DOMAIN stats = {})
           /\ TimedRequests # {} =>
                /\ stats.min_ms \in {timed[i] : i \in TimedRequests}
                /\ \A i \in TimedRequests : stats.min_ms <= timed[i]
                /\ stats.max_ms \in {timed[i] : i \in TimedRequests}
                /\ \A i \in TimedRequests : timed[i] <= stats.max_ms
                /\ stats.avg_ms.count = Cardinality(TimedRequests)
                /\ stats.avg_ms.sum = SumOver(timed, TimedRequests)
                /\ 100 * stats.min_ms <= stats.p50_ms
                /\ stats.p50_ms <= stats.p80_ms
                /\ stats.p80_ms <= stats.p90_ms
                /\ stats.p90_ms <= stats.p95_ms
                /\ stats.p95_ms <= stats.p99_ms
                /\ stats.p99_ms <= 100 * stats.max_ms

C20_Witness ==
    /\ report.total_requests = 3
    /\ \E i \in DOMAIN requests : requests[i].status = FailureStatus
    /\ Cardinality(TimedRequests) = 2
    /\ report.duration_stats.min_ms < report.duration_stats.max_ms

\* The largest duration among the outcomes with a duration above 0.
MaxTimed == CHOOSE d \in {requests[i].duration_ms : i \in TimedRequests} :
                \A i \in TimedRequests : requests[i].duration_ms <= d

\* C21: when no recorded outcome has a duration above 0, the report has no
\* duration statistics, print_report's rpm is 0 and no quotient of the report
\* has the divisor 0; with no recorded outcome at all, the total is 0 and
\* there is no status count.
C21_NoTimedOutcomes ==
    TimedRequests = {} =>
        /\ report.total_requests >= 0 =>
             /\ DOMAIN report.duration_stats = {}
             /\ report.total_requests = Len(requests)
             /\ requests = <<>> => DOMAIN report.status_code_counts = {}
             /\ requests # <<>> => report.summary.success_rate.den > 0
        /\ rpm # NoRpm => rpm = ZeroRatio

C21_Witness ==
    /\ rpm = ZeroRatio
    /\ Len(requests) = 2
    /\ TimedRequests = {}
    /\ report.summary.total = 2

\* C22: print_report's rpm is the number of all recorded outcomes divided by
\* the largest duration, in minutes, of the outcomes with a duration above 0;
\* it is 0 when there is no such outcome.
C22_Throughput ==
    rpm # NoRpm =>
        IF TimedRequests = {}
          THEN rpm.num = 0
          ELSE /\ rpm.den > 0
               /\ rpm.num * MaxTimed = Len(requests) * 60000 * rpm.den

C22_Witness ==
    /\ rpm = Ratio(3 * 60000, 40)
    /\ \E i \in DOMAIN requests : requests[i].duration_ms = 0

\* load_data has been called and its arguments passed the checks.
Loaded == result # NotLoaded /\ ~ArgumentError

\* The physical lines lo..hi of the file that hold a well-formed record.
GoodLines(lo, hi) ==
    {n \in DOMAIN lines : lo <= n /\ n <= hi /\ lines[n] \notin {"bad", "blank"}}

\* The records of a set of lines, in file order.
InFileOrder(S) ==
    [i \in 1 .. Cardinality(S) |->
        LET n == CHOOSE x \in S : Cardinality({y \in S : y < x}) = i - 1
        IN [line |-> n, body |-> lines[n]]]

\* The records load_data is asked to work on: those of the requested lines.
Available ==
    InFileOrder(GoodLines(IF start_line = NoLine THEN 1 ELSE start_line,
                          IF end_line = NoLine THEN Len(lines) ELSE end_line))

\* C23: specified_count with count n over m >= 1 available records returns
\* the first n records when m >= n; with m < n it returns, when fill is on,
\* n items of which the first m are the records in order and the others are
\* the first record, and when fill is off the m records unpadded.
C23_SpecifiedCount ==
    (Loaded /\ mode = "specified_count" /\ Len(Available) >= 1) =>
        LET m == Len(Available)
            d == result.data
        IN /\ ~result.raised
           /\ m >= count => d = SubSeq(Available, 1, count)
           /\ (m < count /\ fill_with_first) =>
                /\ Len(d) = count
                /\ SubSeq(d, 1, m) = Available
                /\ \A i \in m + 1 .. count : d[i] = Available[1]
           /\ (m < count /\ ~fill_with_first) => d = Available

C23_Witness ==
    /\ Loaded
    /\ mode = "specified_count"
    /\ fill_with_first
    /\ Len(Available) = 2
    /\ count = 4
    /\ Available[1] # Available[2]
    /\ Len(result.data) = 4

\* C24: first_n and random_n with a count above the number of available
\* records do not raise and return all available records in file order.
C24_CountAboveAvailable ==
    (Loaded /\ mode \in {"first_n", "random_n"} /\ count > Len(Available)) =>
        /\ ~result.raised
        /\ result.data = Available

C24_Witness ==
    /\ Loaded
    /\ mode = "random_n"
    /\ Len(Available) = 2
    /\ count = 3
    /\ result.data = Available

\* C25: random_n with a count n at most the number of available records
\* returns n records taken from n distinct positions of the loaded list, and
\* the loaded list is left as it was read.
C25_RandomWithoutReplacement ==
    (Loaded /\ mode = "random_n" /\ count <= Len(Available)) =>
        /\ ~result.raised
        /\ Len(result.data) = count
        /\ \A i \in DOMAIN result.data :
              \E k \in DOMAIN Available : result.data[i] = Available[k]
        /\ NoRepeats(result.data)
        /\ raw_data = Available

C25_Witness ==
    /\ Loaded
    /\ mode = "random_n"
    /\ count = 2
    /\ Len(Available) = 3
    /\ result.data = <<Available[3], Available[1]>>
    /\ Available[1].body = Available[3].body

\* C26: full_load with a line range returns the well-formed records of the
\* physical lines start..end in file order, a missing start being line 1 and
\* a missing end the last line; a range with start <= 0, end <= 0 or
\* start > end is rejected before the file is read.
RangeError ==
    \/ start_line # NoLine /\ start_line <= 0
    \/ end_line # NoLine /\ end_line <= 0
    \/ start_line # NoLine /\ end_line # NoLine /\ start_line > end_line

C26_LineRange ==
    (result # NotLoaded /\ mode = "full_load") =>
        /\ RangeError => result.raised /\ ~result.read /\ raw_data = <<>>
        /\ ~ArgumentError => ~result.raised /\ result.data = Available

C26_Witness ==
    /\ Loaded
    /\ mode = "full_load"
    /\ lines = <<"bad", "blank", "b">>
    /\ start_line = 2
    /\ end_line = 3
    /\ result.data = <<[line |-> 3, body |-> "b"]>>

\* The well-formed lines the streaming reader has read so far.
OkLinesRead == Cardinality({i \in DOMAIN src : src[i] = "ok"})

\* The records waiting in data_queue, oldest first.
QueuedSeq == SelectSeq(data_queue, LAMBDA x : x # None)

\* C27: a malformed line does not abort a load. load_data with valid
\* arguments does not raise, reads exactly the well-formed records of the
\* requested lines in file order and returns the empty list when there is
\* none; the streaming reader yields one record per well-formed line, in
\* order, and none for another line, and a streaming run (one consumer) over
\* a source without a well-formed line goes on to return an empty result list.
C27_MalformedLinesSkipped ==
    /\ Loaded =>
         /\ ~result.raised
         /\ raw_data = Available
         /\ mode = "full_load" => result.data = Available
         /\ Available = <<>> => result.data = <<>>
    /\ epc # "none" =>
         /\ line_num = OkLinesRead
         /\ \A i \in DOMAIN QueuedSeq :
               /\ QueuedSeq[i] <= line_num
               /\ i > 1 => QueuedSeq[i - 1] < QueuedSeq[i]
         /\ readFailed \/ Len(results) + InProcess + Unconsumed = OkLinesRead
         /\ (epc = "returned" /\ OkLinesRead = 0) => results = <<>>
         /\ (epc = "running" /\ max_workers = 1) => ENABLED PipeNext

C27_Witness ==
    /\ Loaded
    /\ lines = <<"a", "bad", "b">>
    /\ mode = "full_load"
    /\ result.data = <<[line |-> 1, body |-> "a"], [line |-> 3, body |-> "b"]>>

\* A streaming run over a source of a malformed and a blank line has returned.
C27_StreamWitness ==
    /\ epc = "returned"
    /\ max_workers = 1
    /\ src = <<"bad", "blank">>
    /\ results = <<>>

\* C28: _load_env_config raises when the requested environment is in no
\* entry or when some environment name is in more than one entry; otherwise it
\* returns the one entry whose env is the requested name.
C28_ConfigLookup ==
    target_config # NoConfig =>
        LET missing == \A i \in DOMAIN configs : configs[i].env # env_name
            duplicated == \E i, j \in DOMAIN configs :
                              /\ i # j
                              /\ configs[i].env # Absent
                              /\ configs[i].env = configs[j].env
        IN IF missing \/ duplicated
             THEN target_config.raised
             ELSE /\ ~target_config.raised
                  /\ configs[target_config.entry].env = env_name

\* C29: in run_all_inference the report is printed only when the pipeline
\* has returned and the writer's stop() has completed: the run has returned,
\* no record is queued or in process, the report counts every outcome
\* recorded, and on a run with a writer the writer task has ended and every
\* reported outcome has its line in the flushed part of the file.
C29_ReportAfterStop ==
    report # NoReport =>
        /\ rpc = "returned"
        /\ epc \in {"none", "returned"}
        /\ Unconsumed = 0
        /\ InProcess = 0
        /\ ~response_writer
        /\ report.total_requests = Len(requests)
        /\ wpc # "none" =>
             /\ stop_pc = "returned"
             /\ wpc = "done"
             /\ write_queue = <<>>
             /\ Len(file) = Len(requests)
             /\ \A i \in DOMAIN requests :
                   \E j \in 1 .. flushed :
                       /\ file[j].rec = requests[i].rec
                       /\ file[j].err = (requests[i].status = FailureStatus)

C29_Witness ==
    /\ report # NoReport
    /\ wpc = "done"
    /\ report.total_requests = 3
    /\ FailureStatus \in DOMAIN report.status_code_counts
    /\ OkStatus \in DOMAIN report.status_code_counts

\* C31: the writer only appends. The lines the file held before start()
\* stay at its head, what follows them are the written items in write order,
\* none twice, and when stop() has returned with no write_data call accepted
\* since it was invoked the file is the earlier lines followed by every
\* written item, after each start / write_data / stop cycle.
C31_AppendOnly ==
    /\ IsPrefix(Earlier, file)
    /\ \E k \in 0 .. Len(handed) : file = Earlier \o SubSeq(handed, 1, k)
    /\ NoRepeats(file)
    /\ flushed >= Len(Earlier)
    /\ (mpc = "stopped" /\ handedAtStop = handed) => file = Earlier \o handed

C31_Witness ==
    /\ mpc = "stopped"
    /\ stopCalls = 2
    /\ handedAtStop = handed
    /\ Len(handed) = 2
    /\ total_written = 2
    /\ file = Earlier \o handed

\* C32: the outcome of a request carries the request id that was minted for
\* the request and sent with it in X-Client-Request-ID.
C32_CorrelationHeader ==
    \A k \in DOMAIN requests :
        requests[k].rec = dispatched => requests[k].request_id = request_id

\* What load_data can return for the same file, mode, count and fill flag
\* when no line range is passed.
WithoutRange ==
    {out.data : out \in ProcessDataByMode(LoadJsonl(lines, NoLine, NoLine),
                                          mode, count, fill_with_first)}

\* C33: in specified_count, first_n and random_n a line range has no effect:
\* the call with a range does what the call without it can do.
C33_RangeOnlyInFullLoad ==
    (/\ result # NotLoaded
     /\ mode # "full_load"
     /\ count # NoCount
     /\ count > 0) =>
        /\ ~result.raised
        /\ result.data \in WithoutRange

\* C34: every record a consumer has taken from the queue and finished with
\* has exactly one entry in results: the records read are the ones still
\* queued or held, the ones in process and the ones with a result.
C34_OneResultPerRecord ==
    /\ Len(results) + InProcess + Unconsumed = line_num
    /\ \A r \in 1 .. line_num : Count(results, r) <= 1

\* C36: every dispatch attempt has at most one entry in the report's
\* requests, and exactly one once the attempt is over.
C36_OneReportEntryPerAttempt ==
    /\ \A r \in 1 .. line_num : Count(requests, r) <= 1
    /\ Len(requests) + Unconsumed + Cardinality({w \in ActiveWorkers : cpc[w] = "post"})
         = line_num

\* End-of-stream markers in the queue, and markers taken by a consumer.
MarkersQueued == Cardinality({i \in DOMAIN data_queue : data_queue[i] = None})
MarkersTaken == Cardinality({w \in ActiveWorkers : cpc[w] = "done"})

\* C37: however the producer ends (end of the source, a file that cannot be
\* opened, a read error part-way) it has put exactly one end-of-stream marker
\* into the queue, none before it ends, and no record follows the marker.
C37_OneMarker ==
    /\ MarkersQueued + MarkersTaken = (IF ppc = "done" THEN 1 ELSE 0)
    /\ \A i \in DOMAIN data_queue :
          data_queue[i] = None => i = Len(data_queue)
    /\ ppc \in {"put_none", "done"} => pdata = None
    /\ (ppc = "done" /\ MarkersTaken = 1) => data_queue = <<>>

C37_Witness ==
    /\ ppc = "done"
    /\ readFailed
    /\ Len(src) = 2
    /\ line_num = 1
    /\ MarkersTaken = 1

\* The number of places a record is at: queued, held by the waiting
\* producer, in process at a consumer, or with its result.
PlacesOf(r) ==
    Cardinality({i \in DOMAIN data_queue : data_queue[i] = r})
      + (IF ppc = "wait_full" /\ pdata = r THEN 1 ELSE 0)
      + Cardinality({w \in ActiveWorkers : cpc[w] \in {"post", "write"} /\ cdata[w] = r})
      + Count(results, r)

\* C38: with several consumers every record read is at exactly one place at
\* any moment (queued, held, in process at one consumer, or done with one
\* result), so no record is taken or dispatched by two consumers.
C38_ConsumedOnce ==
    /\ \A r \in 1 .. line_num : PlacesOf(r) = 1
    /\ \A w1, w2 \in ActiveWorkers :
          (/\ w1 # w2
           /\ cpc[w1] \in {"post", "write"}
           /\ cpc[w2] \in {"post", "write"}) => cdata[w1] # cdata[w2]

C38_Witness ==
    /\ max_workers = 2
    /\ cpc[0] = "post"
    /\ cpc[1] = "post"
    /\ cdata[0] = 2
    /\ cdata[1] = 1

\* C40: after k appends by the consumers the report's requests and the
\* results list hold exactly k entries each, one per record processed and
\* none twice, whatever the interleaving of the consumers.
C40_AppendsKept ==
    /\ Len(results) = SumOver(processed_count, Workers)
    /\ Len(requests) = Len(results)
    /\ \A r \in 1 .. line_num :
          /\ Count(results, r) <= 1
          /\ Count(requests, r) = Count(results, r)

C40_Witness ==
    /\ max_workers = 2
    /\ processed_count[0] = 1
    /\ processed_count[1] = 1
    /\ Len(requests) = 2
    /\ requests[1].rec = 2

\* C35: when stop() has returned, every item whose write_data call returned
\* is in the file, also when the call was made while stop() was in progress.
C35_NoLossOnShutdown == mpc = "stopped" => file = handed

\* C39: a write_data call made before start() or after stop() has returned
\* is refused and changes nothing of the writer (queue, counters, file,
\* waiting callers); a call made in between is accepted: its item is queued
\* or its caller waits for a free slot.
C39_WriteOnlyWhileRunning ==
    [][issued' = issued + 1 =>
          IF mpc = "new" \/ stop_pc = "returned"
            THEN /\ ~is_running
                 /\ UNCHANGED <<writerVars, handed, apc, adata>>
            ELSE /\ is_running
                 /\ \/ handed' = Append(handed, Line(0 - 1, issued', issued', FALSE))
                    \/ \E c \in Callers : apc[c] = "idle" /\ apc'[c] = "blocked"]_vars

C39_Witness ==
    /\ mpc = "stopped"
    /\ issued = 2
    /\ file = <<Line(0 - 1, 1, 1, FALSE)>>
    /\ handed = file
    /\ write_queue = <<>>
    /\ \A c \in Callers : apc[c] = "idle"

====
